---- MODULE Spec2Model ----
(***************************************************************************)
(* Model of plugins/action/git_branch.py: the git_branch action decodes a  *)
(* task into an ordered list of postconditions (CheckedOut, Committed,     *)
(* Pulled, Pushed) and evaluates them against a git working copy.          *)
(*                                                                         *)
(* Strings that the code splits, joins or rewrites are sequences of atoms  *)
(* (a name without '/', or one of the separators "/", " ", "$(").          *)
(* YAML values are tagged records so that a value of any type can sit      *)
(* under any key, as in the task arguments handed over by Ansible.         *)
(***************************************************************************)
EXTENDS Naturals, Sequences, FiniteSets, TLC

(***************************************************************************)
(* YAML / Python values                                                    *)
(***************************************************************************)
VNone      == [t |-> "none"]
VTrue      == [t |-> "bool", b |-> TRUE]
VFalse     == [t |-> "bool", b |-> FALSE]
VStr(s)    == [t |-> "str", s |-> s]
VDict(kvs) == [t |-> "dict", d |-> kvs]
VList(xs)  == [t |-> "list", l |-> xs]

\* Python truthiness (if x:)
Truthy(v) ==
    CASE v.t = "none" -> FALSE
      [] v.t = "bool" -> v.b
      [] v.t = "str"  -> v.s # ""
      [] v.t = "dict" -> Len(v.d) > 0
      [] v.t = "list" -> Len(v.l) > 0

IsTrue(v) == v.t = "bool" /\ v.b

\* A dict is a sequence of <<key, value>> pairs in insertion order.
DictHas(kvs, k) == \E i \in 1..Len(kvs) : kvs[i][1] = k

DictIdx(kvs, k) == CHOOSE i \in 1..Len(kvs) : kvs[i][1] = k

\* dict.get(k, dflt) / the value returned by dict.pop(k, dflt)
DictGet(kvs, k, dflt) == IF DictHas(kvs, k) THEN kvs[DictIdx(kvs, k)][2] ELSE dflt

\* the dict left behind by dict.pop(k, ...)
DictDel(kvs, k) == SelectSeq(kvs, LAMBDA kv : kv[1] # k)

DictKeys(kvs) == {kvs[i][1] : i \in 1..Len(kvs)}

(***************************************************************************)
(* Postcondition objects: one record shape for the four classes, the       *)
(* fields a class does not have are VNone.                                 *)
(***************************************************************************)
\* GitBranchPostconditionBase.__init__
GitBranchPostconditionBase(clazz, branch, repository_path, git_command, verify) ==
    [clazz |-> clazz, branch_name |-> branch, repository_path |-> repository_path,
     git_command |-> git_command, verify |-> verify,
     message |-> VNone, branch_spec |-> VNone,
     rebase |-> VFalse, autostash |-> VFalse,
     force |-> VFalse, force_with_lease |-> VFalse]

\* GitBranchCheckedOut has no constructor of its own
GitBranchCheckedOut(branch, repository_path, git_command, verify) ==
    GitBranchPostconditionBase("CheckedOut", branch, repository_path, git_command, verify)

\* GitBranchCommitted.__init__(message=None, **kwargs)
GitBranchCommitted(message, branch, repository_path, git_command, verify) ==
    [GitBranchPostconditionBase("Committed", branch, repository_path, git_command, verify)
        EXCEPT !.message = message]

\* GitBranchPulled.__init__(pull_from, rebase=False, autostash=False, **kwargs)
GitBranchPulled(pull_from, rebase, autostash, branch, repository_path, git_command, verify) ==
    [GitBranchPostconditionBase("Pulled", branch, repository_path, git_command, verify)
        EXCEPT !.branch_spec = pull_from, !.rebase = rebase, !.autostash = autostash]

\* GitBranchPushed.__init__(to=None, force=False, force_with_lease=False, **kwargs)
GitBranchPushed(to, force, force_with_lease, branch, repository_path, git_command, verify) ==
    [GitBranchPostconditionBase("Pushed", branch, repository_path, git_command, verify)
        EXCEPT !.branch_spec = to, !.force = force, !.force_with_lease = force_with_lease]

(***************************************************************************)
(* as_postconditions: the decoder of the task arguments                    *)
(***************************************************************************)
NoError == "none"

Decoded(err, pcs) == [err |-> err, pcs |-> pcs]

\* the constructor call clazz(more_kwargs) for GitBranchPulled: pull_from has no default, so a
\* call without it raises TypeError (missing required positional argument).
new_postcondition_Pulled(pull_params, branch, repository_path, git_command, verify) ==
    IF ~DictHas(pull_params, "pull_from")
    THEN Decoded("TypeError", <<>>)
    ELSE Decoded(NoError,
           <<GitBranchPulled(DictGet(pull_params, "pull_from", VNone),
                             DictGet(pull_params, "rebase", VFalse),
                             DictGet(pull_params, "autostash", VFalse),
                             branch, repository_path, git_command, verify)>>)

\* the constructor call clazz(more_kwargs) for GitBranchPushed: every parameter has a default,
\* a keyword the constructor does not know raises TypeError.
PushedKwargs == {"to", "force", "force_with_lease"}

new_postcondition_Pushed(push_params, branch, repository_path, git_command, verify) ==
    IF ~(DictKeys(push_params) \subseteq PushedKwargs)
    THEN Decoded("TypeError", <<>>)
    ELSE Decoded(NoError,
           <<GitBranchPushed(DictGet(push_params, "to", VNone),
                             DictGet(push_params, "force", VFalse),
                             DictGet(push_params, "force_with_lease", VFalse),
                             branch, repository_path, git_command, verify)>>)

\* lines 76-77
decode_checked_out(todo, branch, repository_path, git_command, verify) ==
    IF Truthy(DictGet(todo, "checked_out", VNone))
    THEN Decoded(NoError, <<GitBranchCheckedOut(branch, repository_path, git_command, verify)>>)
    ELSE Decoded(NoError, <<>>)

\* lines 80-87, committed being todo.pop("committed", None)
decode_committed_of(committed, branch, repository_path, git_command, verify) ==
    CASE committed.t = "none" -> Decoded(NoError, <<>>)
      [] IsTrue(committed) ->
           Decoded(NoError, <<GitBranchCommitted(VNone, branch, repository_path, git_command, verify)>>)
      [] committed.t = "dict" ->
           IF DictHas(committed.d, "message")
           THEN Decoded(NoError,
                  <<GitBranchCommitted(DictGet(committed.d, "message", VNone),
                                       branch, repository_path, git_command, verify)>>)
           ELSE Decoded("KeyError", <<>>)
      [] OTHER -> Decoded("TypeError", <<>>)

\* lines 79-87
decode_committed(todo, branch, repository_path, git_command, verify) ==
    decode_committed_of(DictGet(todo, "committed", VNone),
                        branch, repository_path, git_command, verify)

\* lines 93-106, one element of pull_list
decode_pull_element(pull, branch, repository_path, git_command, verify) ==
    CASE pull.t = "dict" ->
           new_postcondition_Pulled(
               << <<"pull_from", DictGet(pull.d, "from", VNone)>>,
                  <<"rebase",    DictGet(pull.d, "rebase", VNone)>>,
                  <<"autostash", DictGet(pull.d, "autostash", VNone)>> >>,
               branch, repository_path, git_command, verify)
      [] IsTrue(pull) ->
           new_postcondition_Pulled(<<>>, branch, repository_path, git_command, verify)
      [] OTHER -> Decoded("TypeError", <<>>)

\* postconditions.append after postconditions.append; the first error ends it
Appended(first, rest) ==
    IF first.err # NoError THEN first
    ELSE IF rest.err # NoError THEN rest
    ELSE Decoded(NoError, first.pcs \o rest.pcs)

RECURSIVE decode_pull_list(_, _, _, _, _)
\* lines 92-106, the loop over pull_list; the first error ends it
decode_pull_list(pull_list, branch, repository_path, git_command, verify) ==
    IF pull_list = <<>> THEN Decoded(NoError, <<>>)
    ELSE Appended(decode_pull_element(Head(pull_list), branch, repository_path,
                                      git_command, verify),
                  decode_pull_list(Tail(pull_list), branch, repository_path,
                                   git_command, verify))

\* lines 90-91: a value that is not a list becomes a one-element list
as_pull_list(popped) == IF popped.t = "list" THEN popped.l ELSE <<popped>>

\* lines 89-106
decode_pull(todo, branch, repository_path, git_command, verify) ==
    decode_pull_list(as_pull_list(DictGet(todo, "pull", VList(<<>>))),
                     branch, repository_path, git_command, verify)

\* lines 109-117, push being todo.pop("push", None)
decode_push_of(push, branch, repository_path, git_command, verify) ==
    IF ~Truthy(push) THEN Decoded(NoError, <<>>)
    ELSE CASE push.t = "dict" ->
                new_postcondition_Pushed(push.d, branch, repository_path, git_command, verify)
           [] IsTrue(push) ->
                new_postcondition_Pushed(<<>>, branch, repository_path, git_command, verify)
           [] OTHER -> Decoded("TypeError", <<>>)

\* lines 108-117
decode_push(todo, branch, repository_path, git_command, verify) ==
    decode_push_of(DictGet(todo, "push", VNone), branch, repository_path, git_command, verify)

TodoKeys == {"checked_out", "committed", "pull", "push"}
TaskKeys == {"branch", "repository", "git_command"}

\* the four blocks of as_postconditions in source order without the checks
\* of lines 119-124
decoded_in_order_lenient(task_args, todo, co, cm, pl, ps) ==
    Appended(co, Appended(cm, Appended(pl, ps)))

\* the blocks of as_postconditions with the push block before the pull block
decoded_push_before_pull(task_args, todo, co, cm, pl, ps) ==
    Appended(co, Appended(cm, Appended(ps, Appended(pl,
        IF ~(DictKeys(todo) \subseteq TodoKeys) THEN Decoded("TypeError", <<>>)
        ELSE IF ~(DictKeys(task_args) \subseteq TaskKeys) THEN Decoded("TypeError", <<>>)
        ELSE Decoded(NoError, <<>>)))))

\* the four blocks of as_postconditions in source order, then lines 119-124
decoded_in_order(task_args, todo, co, cm, pl, ps) ==
    Appended(co, Appended(cm, Appended(pl, Appended(ps,
        IF ~(DictKeys(todo) \subseteq TodoKeys) THEN Decoded("TypeError", <<>>)
        ELSE IF ~(DictKeys(task_args) \subseteq TaskKeys) THEN Decoded("TypeError", <<>>)
        ELSE Decoded(NoError, <<>>)))))

\* lines 61-63 popped, then lines 76-117, without the
\* checks for left-over keys
as_postconditions_lenient_of(task_args, todo, branch, repository_path, git_command, verify) ==
    decoded_in_order_lenient(task_args, todo,
        decode_checked_out(todo, branch, repository_path, git_command, verify),
        decode_committed(todo, branch, repository_path, git_command, verify),
        decode_pull(todo, branch, repository_path, git_command, verify),
        decode_push(todo, branch, repository_path, git_command, verify))

\* lines 61-63 popped, then lines 76-124
as_postconditions_of(task_args, todo, branch, repository_path, git_command, verify) ==
    decoded_in_order(task_args, todo,
        decode_checked_out(todo, branch, repository_path, git_command, verify),
        decode_committed(todo, branch, repository_path, git_command, verify),
        decode_pull(todo, branch, repository_path, git_command, verify),
        decode_push(todo, branch, repository_path, git_command, verify))

\* as_postconditions without the two checks for left-over keys
as_postconditions_lenient(task_args, todo, verify) ==
    as_postconditions_lenient_of(task_args, todo,
        DictGet(task_args, "branch", VNone),
        DictGet(task_args, "repository", VNone),
        DictGet(task_args, "git_command", VNone), verify)

\* as_postconditions(task_args, todo, verify=...): task_args comes without
\* its verify/ensure key.  The statements run in source order, the first
\* exception ends the call and no list is returned.
as_postconditions(task_args, todo, verify) ==
    as_postconditions_of(task_args, todo,
        DictGet(task_args, "branch", VNone),
        DictGet(task_args, "repository", VNone),
        DictGet(task_args, "git_command", VNone), verify)

\* run_mode with the verify flag lost: every task is treated as ensure
run_mode_always_ensure(task_args) ==
    IF DictHas(task_args, "verify")
    THEN IF DictHas(task_args, "ensure")
         THEN [err |-> "AnsibleError", verify |-> FALSE, todo |-> <<>>]
         ELSE [err |-> NoError, verify |-> FALSE,
               todo |-> DictGet(task_args, "verify", VNone).d]
    ELSE IF DictHas(task_args, "ensure")
         THEN [err |-> NoError, verify |-> FALSE,
               todo |-> DictGet(task_args, "ensure", VNone).d]
         ELSE [err |-> "AnsibleError", verify |-> FALSE, todo |-> <<>>]

\* ActionModule.run, lines 20-29: which of verify / ensure the task carries
run_mode(task_args) ==
    IF DictHas(task_args, "verify")
    THEN IF DictHas(task_args, "ensure")
         THEN [err |-> "AnsibleError", verify |-> TRUE, todo |-> <<>>]
         ELSE [err |-> NoError, verify |-> TRUE,
               todo |-> DictGet(task_args, "verify", VNone).d]
    ELSE IF DictHas(task_args, "ensure")
         THEN [err |-> NoError, verify |-> FALSE,
               todo |-> DictGet(task_args, "ensure", VNone).d]
         ELSE [err |-> "AnsibleError", verify |-> FALSE, todo |-> <<>>]

\* what run has after line 35, d being the decoder's outcome
decoded_as(m, d) == [err |-> d.err, verify |-> m.verify, pcs |-> d.pcs]

\* ActionModule.run, lines 30-35, m being the mode found by lines 20-29
run_decode_in(task_args, m) ==
    IF m.err # NoError THEN [err |-> m.err, verify |-> m.verify, pcs |-> <<>>]
    ELSE decoded_as(m, as_postconditions(DictDel(DictDel(task_args, "verify"), "ensure"),
                                         m.todo, m.verify))

\* ActionModule.run, lines 20-35: mode, then the decoded list
run_decode(task_args) == run_decode_in(task_args, run_mode(task_args))

(***************************************************************************)
(* Strings as sequences of atoms                                           *)
(***************************************************************************)
\* a one-atom string
W(s) == <<s>>

\* `x in s` for an atom x
Contains(s, x) == \E i \in 1..Len(s) : s[i] = x

\* position of the first occurrence of atom x in s
FirstIndex(s, x) == CHOOSE i \in 1..Len(s) : s[i] = x /\ \A j \in 1..(i - 1) : s[j] # x

(***************************************************************************)
(* The working copy, as far as the git commands of this module see it      *)
(*   current    name of the checked out branch, "" when HEAD is detached   *)
(*   unstaged   what `git diff --exit-code` finds                          *)
(*   staged     what `git diff --cached --exit-code` finds                 *)
(*   ahead      HEAD has commits the remote-tracking branch has not        *)
(*   behind     the remote-tracking branch has commits HEAD has not        *)
(*   unfetched  the remote has commits the remote-tracking branch has not  *)
(*   tracking   %(upstream:short) of the branches, "" if none configured   *)
(*   remotes    the lines of `git remote`                                  *)
(***************************************************************************)
TreeStates == {"clean", "dirty", "error"}

\* the atom standing for the end of a line
Newline == "<nl>"

\* exit code of a diff --exit-code query
DiffRc(tree) == CASE tree = "clean" -> 0 [] tree = "dirty" -> 1 [] OTHER -> 128

CommandResult(rc, stdout, stderr) == [rc |-> rc, stdout |-> stdout, stderr |-> stderr]

\* what git answers to the read-only commands the module issues
GitQueryResult(repo, argv) ==
    LET verb == argv[1][1] IN
    CASE verb = "branch" ->
           CommandResult(0, IF repo.current = "" THEN <<>> ELSE <<repo.current, Newline>>, <<>>)
      [] verb = "diff" ->
           IF Len(argv) >= 2 /\ argv[2] = W("--cached")
           THEN CommandResult(DiffRc(repo.staged), <<>>, <<>>)
           ELSE CommandResult(DiffRc(repo.unstaged), <<>>, <<>>)
      [] verb = "for-each-ref" -> CommandResult(0, repo.tracking \o <<Newline>>, <<>>)
      [] verb = "remote" -> CommandResult(0, repo.remotes, <<>>)
      [] verb = "fetch" ->
           IF argv[3] \notin repo.remotes
           THEN CommandResult(128, <<>>, <<"fatal">>)
           ELSE IF repo.unfetched
           THEN CommandResult(0, <<>>, <<"old", "..", "new", " ", "->", " ", "tracking">>)
           ELSE CommandResult(0, <<>>, <<"branch", " ", "->", " ", "FETCH_HEAD">>)
      [] verb = "merge-base" ->
           \* merge-base --is-ancestor <a> <b>: 0 if a is an ancestor of b, else 1
           IF argv[3] = argv[4] THEN CommandResult(0, <<>>, <<>>)
           ELSE IF argv[4] = W("HEAD") THEN CommandResult(IF repo.behind THEN 1 ELSE 0, <<>>, <<>>)
           ELSE IF argv[3] = W("HEAD") THEN CommandResult(IF repo.ahead THEN 1 ELSE 0, <<>>, <<>>)
           ELSE CommandResult(128, <<>>, <<"fatal">>)
      [] verb = "push" ->
           \* push --dry-run [--force | --force-with-lease] <remote> <branch>
           LET forced == Contains(argv, W("--force"))
               leased == Contains(argv, W("--force-with-lease"))
               remote == argv[Len(argv) - 1]
           IN  IF remote \notin repo.remotes
               THEN CommandResult(128, <<>>, <<"fatal">>)
               ELSE IF ~(repo.ahead \/ repo.behind \/ repo.unfetched)
               THEN CommandResult(0, <<>>, <<"Everything up-to-date">>)
               ELSE IF forced \/ (leased /\ ~repo.unfetched)
                       \/ ~(repo.behind \/ repo.unfetched)
               THEN CommandResult(0, <<>>, <<"old", "..", "new", " ", "->", " ", "branch">>)
               ELSE CommandResult(1, <<>>, <<"! [rejected]", " ", "->", " ", "branch">>)
      [] OTHER -> CommandResult(129, <<>>, <<"usage">>)

Outcome(rc, repo) == [rc |-> rc, repo |-> repo]

TreeDirty(repo) == repo.unstaged # "clean" \/ repo.staged # "clean"

\* what git may do on the mutating commands the module issues: the set of
\* (exit code, working copy afterwards) the command can end in
GitChangeOutcomes(repo, argv) ==
    LET verb == argv[1][1] IN
    CASE verb = "checkout" ->
           \* the branch just checked out has its own history
           {Outcome(0, [repo EXCEPT !.current = argv[2][1], !.ahead = a, !.behind = b]) :
                a \in BOOLEAN, b \in BOOLEAN}
           \cup (IF TreeDirty(repo) THEN {Outcome(1, repo)} ELSE {})
      [] verb = "commit" ->
           \* commit -m <message> records what is staged, and only that
           IF repo.staged = "error" \/ repo.unstaged = "error" THEN {Outcome(128, repo)}
           ELSE IF repo.staged = "clean" \/ argv[3] = <<"">> THEN {Outcome(1, repo)}
           ELSE {Outcome(0, [repo EXCEPT !.staged = "clean", !.ahead = TRUE])}
      [] verb = "pull" ->
           LET remote  == argv[Len(argv) - 1]
               fetched == [repo EXCEPT !.unfetched = FALSE,
                                       !.behind = repo.behind \/ repo.unfetched]
           IN  IF remote \notin repo.remotes THEN {Outcome(128, repo)}
               ELSE {Outcome(0, [fetched EXCEPT !.behind = FALSE])}
                    \cup (IF fetched.behind /\ (repo.ahead \/ TreeDirty(repo))
                          THEN {Outcome(1, fetched)} ELSE {})
      [] verb = "push" ->
           LET forced == Contains(argv, W("--force"))
               leased == Contains(argv, W("--force-with-lease"))
               remote == argv[Len(argv) - 1]
               pushed == [repo EXCEPT !.ahead = FALSE, !.behind = FALSE, !.unfetched = FALSE]
           IN  IF remote \notin repo.remotes THEN {Outcome(128, repo)}
               ELSE IF ~(repo.ahead \/ repo.behind \/ repo.unfetched) THEN {Outcome(0, repo)}
               ELSE IF forced \/ (leased /\ ~repo.unfetched)
                       \/ ~(repo.behind \/ repo.unfetched)
               THEN {Outcome(0, pushed)}
               ELSE {Outcome(1, repo)}
      [] OTHER -> {Outcome(129, repo)}

(***************************************************************************)
(* GitSubaction: the command adapter                                       *)
(***************************************************************************)
\* The outcome of a piece of Python code that issues commands: the commands
\* issued in order, the exception that ended it (NoError if none) and the
\* value returned.
Ev(cmds, err, val) == [cmds |-> cmds, err |-> err, val |-> val]

\* a; b  -- b runs only if a raised nothing
Then(a, b) == IF a.err # NoError THEN a ELSE Ev(a.cmds \o b.cmds, b.err, b.val)

RECURSIVE Strip(_)
\* str.strip()
Strip(s) ==
    IF s = <<>> THEN s
    ELSE IF Head(s) \in {" ", Newline} THEN Strip(Tail(s))
    ELSE IF s[Len(s)] \in {" ", Newline} THEN Strip(SubSeq(s, 1, Len(s) - 1))
    ELSE s

\* GitSubaction.__init__: git_command if git_command is not None else "git"
GitCommandOf(p) == IF p.git_command.t = "none" THEN "git" ELSE p.git_command.s

\* the atom standing for the backtick character
Backtick == "<backtick>"

\* the substitution replacing the leading "git" only
SubstituteGit_leading_only(text, git_command) ==
    [i \in 1..Len(text) |-> IF text[i] = "git" /\ i = 1 THEN git_command ELSE text[i]]

\* the re.sub of _to_command_dict: a "git" at the start of the text, or right
\* after "$" "(" or a backtick, becomes git_command
SubstituteGit(text, git_command) ==
    [i \in 1..Len(text) |->
        IF text[i] = "git" /\ (i = 1 \/ text[i - 1] \in {"$(", Backtick})
        THEN git_command ELSE text[i]]

\* GitSubaction._to_command_dict
to_command_dict(p, argv) ==
    IF Len(argv) = 1 /\ Contains(argv[1], " ")
    THEN [uses_shell |-> TRUE, chdir |-> p.repository_path,
          argv |-> <<SubstituteGit(<<"git", " ">> \o argv[1], GitCommandOf(p))>>]
    ELSE [uses_shell |-> FALSE, chdir |-> p.repository_path,
          argv |-> <<W(GitCommandOf(p))>> \o argv]

\* the command dict as handed to Subaction.query or Subaction.change
CommandOf(kind, d, verb) ==
    [kind |-> kind, uses_shell |-> d.uses_shell, chdir |-> d.chdir, argv |-> d.argv,
     verb |-> verb]

Command(kind, p, argv) == CommandOf(kind, to_command_dict(p, argv), argv[1][1])

\* the exit codes Subaction.query accepts when the caller names none
DefaultRc == {0}

\* failed_when of GitSubaction.query: an exit code outside expected_rc fails
QueryEv(cmd, res, expected_rc) ==
    Ev(<<cmd>>, IF res.rc \in expected_rc THEN NoError ELSE "AnsibleActionFail", res)

\* GitSubaction.query with expected_rc: runs the command, fails on an exit
\* code outside expected_rc
GitSubaction_query(repo, p, argv, expected_rc) ==
    QueryEv(Command("query", p, argv), GitQueryResult(repo, argv), expected_rc)

\* GitSubaction._remotes: hasattr(self, "__remotes") names an attribute that
\* is never set (the assignment is to the mangled _GitSubaction__remotes),
\* so every use issues the query
GitSubaction_remotes(repo, p) ==
    GitSubaction_query(repo, p, <<W("remote")>>, DefaultRc)

\* position of the last occurrence of atom x in s
LastIndex(s, x) == CHOOSE i \in 1..Len(s) : s[i] = x /\ \A j \in (i + 1)..Len(s) : s[j] # x

\* s cut in two at position i, the atom at i dropped
SplitAt(s, i) == <<SubSeq(s, 1, i - 1), SubSeq(s, i + 1, Len(s))>>

\* _deconstruct_remote_name, lines 348-352: the remotes are looked up, then
\* the left part is compared with them
deconstruct_known_remote(remotes, parts, branch_spec) ==
    Then(remotes,
         Ev(<<>>, NoError,
            IF parts[1] \in remotes.val.stdout THEN parts ELSE <<W("origin"), branch_spec>>))

\* _deconstruct_remote_name splitting on the last "/" (rsplit)
deconstruct_remote_name_rsplit(repo, p, branch_spec) ==
    IF ~Contains(branch_spec, "/")
    THEN Ev(<<>>, NoError, <<W("origin"), branch_spec>>)
    ELSE deconstruct_known_remote(GitSubaction_remotes(repo, p),
                                  SplitAt(branch_spec, LastIndex(branch_spec, "/")),
                                  branch_spec)

\* GitSubaction._deconstruct_remote_name
deconstruct_remote_name(repo, p, branch_spec) ==
    IF ~Contains(branch_spec, "/")
    THEN Ev(<<>>, NoError, <<W("origin"), branch_spec>>)
    ELSE deconstruct_known_remote(GitSubaction_remotes(repo, p),
                                  SplitAt(branch_spec, FirstIndex(branch_spec, "/")),
                                  branch_spec)

\* None where a string is expected
PyNone == <<"<None>">>

\* the value of no upstream: (None, None)
NoUpstream == <<PyNone, PyNone>>

\* find_out_upstream_cmd of GitSubaction.query_upstream
find_out_upstream_cmd(branch) ==
    <<"for-each-ref", " ", "--format=\"%(upstream:short)\"", " ", "\"">>
    \o (IF branch.t = "none"
        THEN <<"$(", "git", " ", "symbolic-ref", " ", "-q", " ", "\"HEAD\"", ")">>
        ELSE <<"refs/heads/", branch.s>>)
    \o <<"\"">>

\* GitSubaction.query_upstream, lines 339-343, q being the for-each-ref query
query_upstream_of(repo, p, q) ==
    Then(q, IF Strip(q.val.stdout) # <<>>
            THEN deconstruct_remote_name(repo, p, Strip(q.val.stdout))
            ELSE Ev(<<>>, NoError, NoUpstream))

\* GitSubaction.query_upstream
query_upstream(repo, p, branch) ==
    query_upstream_of(repo, p,
        GitSubaction_query(repo, p, <<find_out_upstream_cmd(branch)>>, DefaultRc))

(***************************************************************************)
(* The four postconditions: holds / passive / enforce                      *)
(***************************************************************************)
\* _get_upstream_or_throw handing on (None, None) instead of raising
upstream_never_throws(u) == u

\* _get_upstream_or_throw, lines 226-230, u being the upstream just resolved
upstream_or_throw(u) ==
    Then(u, Ev(<<>>, IF u.val[1] = PyNone THEN "AnsibleError" ELSE NoError, u.val))

\* GitBranchPushOrPullBase._get_upstream_or_throw: hasattr(self, "__upstream")
\* names an attribute that is never set (the assignment is to the mangled
\* _GitBranchPushOrPullBase__upstream), so every use resolves again
get_upstream_or_throw(repo, p) == upstream_or_throw(query_upstream(repo, p, p.branch_spec))

\* element i of the tuple a piece of code returned
Element(u, i) == IF u.err # NoError THEN u ELSE Ev(u.cmds, NoError, u.val[i])

\* GitBranchPushOrPullBase.remote
remote(repo, p) == Element(get_upstream_or_throw(repo, p), 1)

\* GitBranchPushOrPullBase.remote_branch
remote_branch(repo, p) == Element(get_upstream_or_throw(repo, p), 2)

\* "%s/%s" % (r, b)
Qualified(r, b) == Then(r, Then(b, Ev(<<>>, NoError, r.val \o <<"/">> \o b.val)))

\* GitBranchPushOrPullBase.remote_branch_qualified
remote_branch_qualified(repo, p) == Qualified(remote(repo, p), remote_branch(repo, p))

\* the comparison of GitBranchCheckedOut.holds, q being the branch query
checked_out_is(p, q) ==
    Then(q, Ev(<<>>, NoError,
               IF Truthy(p.branch_name)
               THEN Strip(q.val.stdout) = W(p.branch_name.s)
               ELSE Strip(q.val.stdout) # <<>>))

\* GitBranchCheckedOut.holds
GitBranchCheckedOut_holds(repo, p) ==
    checked_out_is(p, GitSubaction_query(repo, p, <<W("branch"), W("--show-current")>>,
                                         DefaultRc))

\* lines 189-190: both exit codes are 0
both_clean(git_status_red, git_status_green) ==
    Then(git_status_red, Then(git_status_green,
         Ev(<<>>, NoError, git_status_red.val.rc = 0 /\ git_status_green.val.rc = 0)))

\* holds() of Committed with the unstaged diff run without expected_rc
GitBranchCommitted_holds_default_rc(repo, p) ==
    both_clean(GitSubaction_query(repo, p, <<W("diff"), W("--exit-code")>>, DefaultRc),
               GitSubaction_query(repo, p, <<W("diff"), W("--cached"), W("--exit-code")>>,
                                  {0, 1}))

\* GitBranchCommitted.holds
GitBranchCommitted_holds(repo, p) ==
    both_clean(GitSubaction_query(repo, p, <<W("diff"), W("--exit-code")>>, {0, 1}),
               GitSubaction_query(repo, p, <<W("diff"), W("--cached"), W("--exit-code")>>,
                                  {0, 1}))

\* x in query(...)["stderr"]
stderr_has(q, x) == Then(q, Ev(<<>>, NoError, Contains(q.val.stderr, x)))

\* query(...)["rc"] == rc
rc_is(q, rc) == Then(q, Ev(<<>>, NoError, q.val.rc = rc))

\* line 246, r and b being self.remote and self.remote_branch
needs_fetch_from(repo, p, r, b) ==
    Then(r, Then(b,
         stderr_has(GitSubaction_query(repo, p, <<W("fetch"), W("--dry-run"), r.val, b.val>>,
                                       DefaultRc), "..")))

\* GitBranchPulled._needs_fetch
GitBranchPulled_needs_fetch(repo, p) ==
    needs_fetch_from(repo, p, remote(repo, p), remote_branch(repo, p))

\* lines 251-253 with the two commits swapped
needs_pull_swapped_from(repo, p, rb) ==
    Then(rb, rc_is(GitSubaction_query(repo, p,
                       <<W("merge-base"), W("--is-ancestor"), W("HEAD"), rb.val>>, {0, 1}), 1))

\* lines 251-253, rb being self.remote_branch_qualified
needs_pull_from(repo, p, rb) ==
    Then(rb, rc_is(GitSubaction_query(repo, p,
                       <<W("merge-base"), W("--is-ancestor"), rb.val, W("HEAD")>>, {0, 1}), 1))

\* _needs_pull with the two commits of the ancestry query swapped
GitBranchPulled_needs_pull_swapped(repo, p) ==
    needs_pull_swapped_from(repo, p, remote_branch_qualified(repo, p))

\* GitBranchPulled._needs_pull
GitBranchPulled_needs_pull(repo, p) ==
    needs_pull_from(repo, p, remote_branch_qualified(repo, p))

\* not (f or m), "or" short-circuits
not_either(f, m) ==
    IF f.err # NoError THEN f
    ELSE IF f.val THEN Ev(f.cmds, NoError, FALSE)
    ELSE Then(f, Ev(m.cmds, m.err, IF m.err = NoError THEN ~m.val ELSE FALSE))

\* GitBranchPulled.holds
GitBranchPulled_holds(repo, p) ==
    not_either(GitBranchPulled_needs_fetch(repo, p), GitBranchPulled_needs_pull(repo, p))

\* _push_args with --force-with-lease tested before --force
push_args_lease_first(p, r, b) ==
    Then(r, Then(b, Ev(<<>>, NoError,
        (IF Truthy(p.force_with_lease) THEN <<W("--force-with-lease")>>
         ELSE IF Truthy(p.force) THEN <<W("--force")>>
         ELSE <<>>) \o <<r.val, b.val>>)))

\* lines 285-288, r and b being self.remote and self.remote_branch
push_args_to(p, r, b) ==
    Then(r, Then(b, Ev(<<>>, NoError,
        (IF Truthy(p.force) THEN <<W("--force")>>
         ELSE IF Truthy(p.force_with_lease) THEN <<W("--force-with-lease")>>
         ELSE <<>>) \o <<r.val, b.val>>)))

\* GitBranchPushed._push_args
GitBranchPushed_push_args(repo, p) == push_args_to(p, remote(repo, p), remote_branch(repo, p))

\* line 278 without --dry-run, a being self._push_args
needs_push_for_real_with(repo, p, a) ==
    Then(a, stderr_has(GitSubaction_query(repo, p, <<W("push")>> \o a.val, DefaultRc), "->"))

\* line 278, a being self._push_args
needs_push_with(repo, p, a) ==
    Then(a, stderr_has(GitSubaction_query(repo, p, <<W("push"), W("--dry-run")>> \o a.val,
                                          DefaultRc), "->"))

\* _needs_push with the --dry-run flag forgotten
GitBranchPushed_needs_push_for_real(repo, p) ==
    needs_push_for_real_with(repo, p, GitBranchPushed_push_args(repo, p))

\* GitBranchPushed._needs_push
GitBranchPushed_needs_push(repo, p) ==
    needs_push_with(repo, p, GitBranchPushed_push_args(repo, p))

\* not n
negated(n) == IF n.err # NoError THEN n ELSE Ev(n.cmds, NoError, ~n.val)

\* GitBranchPushed.holds
GitBranchPushed_holds(repo, p) == negated(GitBranchPushed_needs_push(repo, p))

\* holds() of the postcondition's class
holds(repo, p) ==
    CASE p.clazz = "CheckedOut" -> GitBranchCheckedOut_holds(repo, p)
      [] p.clazz = "Committed"  -> GitBranchCommitted_holds(repo, p)
      [] p.clazz = "Pulled"     -> GitBranchPulled_holds(repo, p)
      [] p.clazz = "Pushed"     -> GitBranchPushed_holds(repo, p)

\* the text an expression formats, whatever it issued to get there
Formatted(e, text) == Ev(e.cmds, e.err, text)

\* explainer() of the postcondition's class.  moniker has no return
\* statement and is None: "%s" % None formats, str + None raises TypeError.
explainer(repo, p) ==
    CASE p.clazz = "CheckedOut" -> Ev(<<>>, NoError, "checked_out")
      [] p.clazz = "Committed"  -> Ev(<<>>, "TypeError", "committed")
      [] p.clazz = "Pulled"     -> Formatted(remote_branch_qualified(repo, p), "pulled")
      [] p.clazz = "Pushed"     -> Ev(<<>>, NoError, "pushed")

\* passive() returns None
Absent == "absent"

\* GitBranchPostconditionBase.passive
GitBranchPostconditionBase_passive(repo, p) ==
    IF p.verify
    THEN Formatted(explainer(repo, p), "does not hold, bailing out (verify only)")
    ELSE Ev(<<>>, NoError, Absent)

\* passive() of Committed that never declines
GitBranchCommitted_passive_never_declines(repo, p) == Ev(<<>>, NoError, Absent)

\* GitBranchCommitted.passive
GitBranchCommitted_passive(repo, p) ==
    IF p.message.t # "none"
    THEN Ev(<<>>, NoError, Absent)
    ELSE Ev(<<>>, NoError, "Cannot auto-commit")

\* passive() of the postcondition's class
passive(repo, p) ==
    IF p.clazz = "Committed" THEN GitBranchCommitted_passive(repo, p)
    ELSE GitBranchPostconditionBase_passive(repo, p)

\* GitSubaction.change: runs the command, any exit code but 0 fails
GitSubaction_change(repo, p, argv) ==
    {Ev(<<Command("change", p, argv)>>,
        IF o.rc = 0 THEN NoError ELSE "AnsibleActionFail", o.repo) :
        o \in GitChangeOutcomes(repo, argv)}

\* a piece of code that ends before it changes anything
Unchanged(e, repo) == {Ev(e.cmds, e.err, repo)}

\* after e, one of the outcomes in es
ThenAny(e, es) == {Ev(e.cmds \o x.cmds, x.err, x.val) : x \in es}

\* GitBranchCheckedOut.enforce: the name AnsibleActionFailed is not defined
\* in the module, raising it is a NameError
GitBranchCheckedOut_enforce(repo, p) ==
    IF ~Truthy(p.branch_name)
    THEN {Ev(<<>>, "NameError", repo)}
    ELSE GitSubaction_change(repo, p, <<W("checkout"), W(p.branch_name.s)>>)

\* GitBranchCommitted.enforce
GitBranchCommitted_enforce(repo, p) ==
    IF p.message.t # "str"
    THEN {Ev(<<>>, "TypeError", repo)}
    ELSE GitSubaction_change(repo, p, <<W("commit"), W("-m"), W(p.message.s)>>)

\* lines 256-262, r and b being self.remote and self.remote_branch
pull_from(repo, p, r, b) ==
    IF r.err # NoError THEN Unchanged(r, repo)
    ELSE IF b.err # NoError THEN Unchanged(Then(r, b), repo)
    ELSE ThenAny(Then(r, b),
                 GitSubaction_change(repo, p,
                     <<W("pull")>>
                     \o (IF Truthy(p.rebase) THEN <<W("--rebase")>> ELSE <<>>)
                     \o (IF Truthy(p.autostash) THEN <<W("--autostash")>> ELSE <<>>)
                     \o <<r.val, b.val>>))

\* GitBranchPulled.enforce
GitBranchPulled_enforce(repo, p) ==
    pull_from(repo, p, remote(repo, p), remote_branch(repo, p))

\* line 281, a being self._push_args
push_with(repo, p, a) ==
    IF a.err # NoError THEN Unchanged(a, repo)
    ELSE ThenAny(a, GitSubaction_change(repo, p, <<W("push")>> \o a.val))

\* GitBranchPushed.enforce
GitBranchPushed_enforce(repo, p) == push_with(repo, p, GitBranchPushed_push_args(repo, p))

\* enforce() of the postcondition's class
enforce(repo, p) ==
    CASE p.clazz = "CheckedOut" -> GitBranchCheckedOut_enforce(repo, p)
      [] p.clazz = "Committed"  -> GitBranchCommitted_enforce(repo, p)
      [] p.clazz = "Pulled"     -> GitBranchPulled_enforce(repo, p)
      [] p.clazz = "Pushed"     -> GitBranchPushed_enforce(repo, p)

(***************************************************************************)
(* The tasks and working copies the evaluation is run on                   *)
(***************************************************************************)
\* how many times in a row the same task is played on the working copy
MaxRuns == 2

KV(k, v) == <<k, v>>

PullFromMain == VDict(<<KV("from", VStr("main")), KV("rebase", VTrue)>>)
WithMessage  == VDict(<<KV("message", VStr("msg"))>>)

\* values of the verify / ensure key
Todos ==
    { <<KV("checked_out", VTrue)>>,
      <<KV("committed", VTrue)>>,
      <<KV("committed", WithMessage)>>,
      <<KV("pull", PullFromMain)>>,
      <<KV("pull", VDict(<<KV("autostash", VTrue)>>))>>,
      <<KV("pull", VTrue)>>,
      <<KV("pull", VList(<<PullFromMain, VDict(<<>>)>>))>>,
      <<KV("push", VTrue)>>,
      <<KV("push", VDict(<<KV("force", VTrue), KV("force_with_lease", VTrue)>>))>>,
      <<KV("push", VDict(<<KV("force", VTrue)>>))>>,
      <<KV("push", VDict(<<KV("to", VStr("main")), KV("force_with_lease", VTrue)>>))>>,
      <<KV("checked_out", VTrue), KV("pull", VList(<<PullFromMain, VTrue>>))>>,
      <<KV("checked_out", VTrue), KV("committed", WithMessage),
        KV("pull", VDict(<<>>)), KV("push", VTrue)>>,
      <<KV("push", VTrue), KV("pull", VDict(<<>>)),
        KV("committed", WithMessage), KV("checked_out", VTrue)>>,
      <<KV("committed", VTrue), KV("push", VTrue)>>,
      <<KV("checked_out", VTrue), KV("bogus", VTrue)>>,
      <<KV("checked_out", VFalse), KV("push", VFalse)>>,
      <<KV("checked_out", VTrue), KV("committed", VStr("yes"))>>,
      <<KV("checked_out", VTrue), KV("committed", VDict(<<>>))>>,
      <<KV("checked_out", VTrue), KV("pull", VStr("main"))>>,
      <<KV("checked_out", VTrue), KV("push", VStr("main"))>>,
      <<KV("checked_out", VTrue), KV("push", VDict(<<KV("bogus", VTrue)>>))>> }

\* ... of tasks that name no branch
TodosNoBranch ==
    { <<KV("checked_out", VTrue)>>,
      <<KV("checked_out", VTrue), KV("committed", WithMessage), KV("push", VTrue)>> }

TaskInputs ==
    { <<KV(m, VDict(t)), KV("branch", VStr("release"))>> : m \in {"verify", "ensure"}, t \in Todos }
    \cup { <<KV(m, VDict(t))>> : m \in {"verify", "ensure"}, t \in TodosNoBranch }
    \cup { <<KV("verify", VDict(<<KV("checked_out", VTrue)>>)),
             KV("ensure", VDict(<<KV("checked_out", VTrue)>>))>>,
           <<KV("branch", VStr("release"))>>,
           <<KV("ensure", VDict(<<KV("checked_out", VTrue)>>)), KV("bogus", VTrue)>>,
           <<KV("repository", VStr("/srv/repo")), KV("git_command", VStr("/opt/git")),
             KV("ensure", VDict(<<KV("committed", WithMessage), KV("pull", VDict(<<>>))>>))>> }

Branches == {"", "release", "main"}

KnownRemotes == {W("origin"), W("upstream")}

\* %(upstream:short) values: none, a remote-tracking branch, a bare name
Trackings == {<<>>, <<"origin", "/", "release">>, <<"release">>}

RepoInputs ==
    [current : Branches, unstaged : TreeStates, staged : TreeStates,
     ahead : BOOLEAN, behind : BOOLEAN, unfetched : BOOLEAN,
     tracking : Trackings, remotes : {KnownRemotes}]

(***************************************************************************)
(* State                                                                   *)
(***************************************************************************)
VARIABLES
    task_args,       \* the task arguments handed to ActionModule.run
    check_mode,      \* ansible_api.check_mode
    repo,            \* the working copy
    repo0,           \* the working copy as the current run found it
    pc,              \* "start", "holds", "passive", "enforce", "done", "resolve"
    postconditions,  \* the list as_postconditions returned
    idx,             \* index of the postcondition being evaluated
    cmds,            \* every command issued in this run, with the index of its postcondition
    calls,           \* holds / passive / enforce calls of this run and what they returned
    result,          \* the aggregate result of this run
    outcome,         \* "running", "ok", "failed" (result returned), "raised" (exception left run)
    error,           \* the exception that ended the run, NoError if none
    upstream,        \* the value last resolved by query_upstream
    run,             \* number of the current run
    prev             \* outcome and changed flag of the run before

vars == <<task_args, check_mode, repo, repo0, pc, postconditions, idx, cmds, calls,
          result, outcome, error, upstream, run, prev>>

EmptyResult == [changed |-> FALSE, failed |-> FALSE, msg |-> ""]

NoPrev == [outcome |-> "none", changed |-> FALSE]

Init ==
    /\ task_args \in TaskInputs
    /\ check_mode \in BOOLEAN
    /\ repo \in RepoInputs
    /\ repo0 = repo
    /\ pc = "start"
    /\ postconditions = <<>>
    /\ idx = 0
    /\ cmds = <<>>
    /\ calls = <<>>
    /\ result = EmptyResult
    /\ outcome = "running"
    /\ error = NoError
    /\ upstream = NoUpstream
    /\ run = 1
    /\ prev = NoPrev

(***************************************************************************)
(* ActionModule.run and the driving loop                                   *)
(***************************************************************************)
\* the commands of one postcondition, as logged
Logged(cs, i) == [k \in 1..Len(cs) |-> [by |-> i, c |-> cs[k]]]

Call(i, op, ret) == [by |-> i, op |-> op, ret |-> ret]

\* run going on with the loop after a postcondition failed
Raised_goes_on(err, msg) ==
    /\ pc' = IF idx \in 1..Len(postconditions) THEN "holds" ELSE "done"
    /\ error' = err
    /\ IF err = "AnsibleActionFail"
       THEN /\ outcome' = "failed"
            /\ result' = [result EXCEPT !.failed = TRUE, !.msg = msg]
       ELSE /\ outcome' = "raised"
            /\ result' = result

\* run, lines 39-45: an AnsibleActionFail ends the run with the failed
\* result, any other exception leaves run
Raised(err, msg) ==
    /\ pc' = "done"
    /\ error' = err
    /\ IF err = "AnsibleActionFail"
       THEN /\ outcome' = "failed"
            /\ result' = [result EXCEPT !.failed = TRUE, !.msg = msg]
       ELSE /\ outcome' = "raised"
            /\ result' = result

\* the for loop of run, line 33: on to the next postcondition, or return
Advance(res) ==
    /\ error' = error
    /\ result' = res
    /\ IF idx < Len(postconditions)
       THEN idx' = idx + 1 /\ pc' = "holds" /\ outcome' = outcome
       ELSE idx' = idx /\ pc' = "done" /\ outcome' = "ok"

\* run, lines 20-35: the mode and the decoded list, or a configuration error
StartWith(d) ==
    /\ IF d.err # NoError
       THEN /\ Raised(d.err, "")
            /\ UNCHANGED <<postconditions, idx>>
       ELSE /\ postconditions' = d.pcs
            /\ error' = error
            /\ result' = result
            /\ IF d.pcs = <<>>
               THEN idx' = 0 /\ pc' = "done" /\ outcome' = "ok"
               ELSE idx' = 1 /\ pc' = "holds" /\ outcome' = outcome
    /\ UNCHANGED <<task_args, check_mode, repo, repo0, cmds, calls, upstream, run, prev>>

\* ActionModule.run up to the first postcondition
Start ==
    /\ pc = "start"
    /\ StartWith(run_decode(task_args))

\* what the resolved-upstream attribute of the postcondition holds after
\* its code ran on this working copy
UpstreamAfter(p, old) ==
    IF p.clazz \in {"Pulled", "Pushed"}
    THEN query_upstream(repo, p, p.branch_spec).val
    ELSE old

\* run handing False to run_postcondition instead of the check-mode flag
run_check_mode_ignored == FALSE

\* run, line 36: the check-mode flag handed to run_postcondition
run_check_mode == check_mode

\* run_postcondition, first step: what follows from the outcome h of holds()
HoldsWith(p, h) ==
    /\ cmds' = cmds \o Logged(h.cmds, idx)
    /\ upstream' = UpstreamAfter(p, upstream)
    /\ IF h.err # NoError
           THEN /\ calls' = Append(calls, Call(idx, "holds", "raised"))
                /\ Raised(h.err, "tool failure")
                /\ idx' = idx
           ELSE IF h.val
           THEN /\ calls' = Append(calls, Call(idx, "holds", "true"))
                /\ Advance(result)
           ELSE /\ calls' = Append(calls, Call(idx, "holds", "false"))
                /\ pc' = "passive"
                /\ UNCHANGED <<idx, outcome, error, result>>
    /\ UNCHANGED <<task_args, check_mode, repo, repo0, postconditions, run, prev>>

\* run_postcondition, first step: holds()
Holds ==
    /\ pc = "holds"
    /\ HoldsWith(postconditions[idx], holds(repo, postconditions[idx]))

\* run_postcondition going on to enforce() whatever passive() returned
PassiveWith_ignores_reason(p, ps) ==
    /\ cmds' = cmds \o Logged(ps.cmds, idx)
    /\ calls' = Append(calls, Call(idx, "passive",
                                   IF ps.err # NoError THEN "raised"
                                   ELSE IF ps.val # Absent THEN "reason" ELSE "absent"))
    /\ pc' = "enforce"
    /\ UNCHANGED <<idx, outcome, error, result>>
    /\ UNCHANGED <<task_args, check_mode, repo, repo0, postconditions, upstream, run, prev>>

\* run_postcondition, second step: what follows from the outcome ps of
\* passive()
PassiveWith(p, ps) ==
    /\ cmds' = cmds \o Logged(ps.cmds, idx)
    /\ IF ps.err # NoError
           THEN /\ calls' = Append(calls, Call(idx, "passive", "raised"))
                /\ Raised(ps.err, "")
                /\ idx' = idx
           ELSE IF ps.val # Absent
           THEN /\ calls' = Append(calls, Call(idx, "passive", "reason"))
                /\ Raised("AnsibleActionFail", ps.val)
                /\ idx' = idx
           ELSE /\ calls' = Append(calls, Call(idx, "passive", "absent"))
                /\ IF p.verify
                   THEN Raised("AnsibleActionFail", "does not hold") /\ idx' = idx
                   ELSE IF run_check_mode
                   THEN Advance(result)
                   ELSE /\ pc' = "enforce"
                        /\ UNCHANGED <<idx, outcome, error, result>>
    /\ UNCHANGED <<task_args, check_mode, repo, repo0, postconditions, upstream, run, prev>>

\* run_postcondition, second step: holds() was false, passive() decides
Passive ==
    /\ pc = "passive"
    /\ PassiveWith(postconditions[idx], passive(repo, postconditions[idx]))

\* run_postcondition, third step: what follows from the outcome e of enforce()
EnforceWith(p, e) ==
    /\ cmds' = cmds \o Logged(e.cmds, idx)
    /\ repo' = e.val
    /\ upstream' = UpstreamAfter(p, upstream)
    /\ IF e.err # NoError
       THEN /\ calls' = Append(calls, Call(idx, "enforce", "raised"))
            /\ Raised(e.err, "tool failure")
            /\ idx' = idx
       ELSE /\ calls' = Append(calls, Call(idx, "enforce", "ok"))
            /\ Advance([result EXCEPT !.changed = TRUE])
    /\ UNCHANGED <<task_args, check_mode, repo0, postconditions, run, prev>>

\* run_postcondition, third step: enforce()
Enforce ==
    /\ pc = "enforce"
    /\ \E e \in enforce(repo, postconditions[idx]) : EnforceWith(postconditions[idx], e)

\* the same task is played again on the working copy the run left
Replay ==
    /\ pc = "done"
    /\ outcome = "ok"
    /\ run < MaxRuns
    /\ run' = run + 1
    /\ prev' = [outcome |-> outcome, changed |-> result.changed]
    /\ pc' = "start"
    /\ postconditions' = <<>>
    /\ idx' = 0
    /\ cmds' = <<>>
    /\ calls' = <<>>
    /\ result' = EmptyResult
    /\ outcome' = "running"
    /\ error' = NoError
    /\ upstream' = NoUpstream
    /\ repo0' = repo
    /\ UNCHANGED <<task_args, check_mode, repo>>

Next == Start \/ Holds \/ Passive \/ Enforce \/ Replay

Spec == Init /\ [][Next]_vars

(***************************************************************************)
(* Upstream resolution on its own: query_upstream applied to every         *)
(* tracking value up to MaxLen atoms and a few sets of remotes             *)
(***************************************************************************)
\* longest tracking value, in atoms
MaxLen == 5

Names == {"origin", "upstream", "weird-name", "feature", "foo", "x"}

RECURSIVE TrackingsOfLen(_)
\* the strings of n atoms in which names are separated by "/"
TrackingsOfLen(n) ==
    IF n = 0 THEN {<<>>}
    ELSE UNION { {Append(t, a) : a \in IF t # <<>> /\ t[Len(t)] \in Names
                                        THEN {"/"} ELSE Names \cup {"/"}} :
                 t \in TrackingsOfLen(n - 1) }

TrackingInputs == UNION {TrackingsOfLen(n) : n \in 0..MaxLen}

RemoteInputs ==
    { {W("origin"), W("upstream")},
      {W("origin")},
      {W("upstream"), <<"weird-name", "/", "x">>} }

InitUpstream ==
    /\ task_args = <<>>
    /\ check_mode = FALSE
    /\ repo \in [current : {"release"}, unstaged : {"clean"}, staged : {"clean"},
                 ahead : {FALSE}, behind : {FALSE}, unfetched : {FALSE},
                 tracking : TrackingInputs, remotes : RemoteInputs]
    /\ repo0 = repo
    /\ pc = "resolve"
    /\ \E spec \in {VNone, VStr("main")} :
           postconditions = <<GitBranchPulled(spec, VFalse, VFalse, VNone, VNone, VNone, FALSE)>>
    /\ idx = 1
    /\ cmds = <<>>
    /\ calls = <<>>
    /\ result = EmptyResult
    /\ outcome = "running"
    /\ error = NoError
    /\ upstream = NoUpstream
    /\ run = 1
    /\ prev = NoPrev

\* GitSubaction.query_upstream called for the postcondition's branch spec
ResolveWith(u) ==
    /\ upstream' = u.val
    /\ cmds' = cmds \o Logged(u.cmds, idx)
    /\ pc' = "done"
    /\ UNCHANGED <<task_args, check_mode, repo, repo0, postconditions, idx, calls,
                   result, outcome, error, run, prev>>

\* the upstream of the postcondition's branch spec is resolved
Resolve ==
    /\ pc = "resolve"
    /\ ResolveWith(query_upstream(repo, postconditions[idx],
                                  postconditions[idx].branch_spec))

NextUpstream == Resolve

SpecUpstream == InitUpstream /\ [][NextUpstream]_vars

(***************************************************************************)
(* Properties                                                              *)
(***************************************************************************)
\* a command that changes the working copy or the remote
MutatingVerbs == {"checkout", "commit", "pull", "push"}

IsMutating(c) ==
    \/ c.kind = "change"
    \/ c.verb \in MutatingVerbs /\ ~Contains(c.argv, W("--dry-run"))

NoMutation == \A k \in 1..Len(cmds) : ~IsMutating(cmds[k].c)

NoEnforce == \A k \in 1..Len(calls) : calls[k].op # "enforce"

\* the task asks for verify, read off the task arguments
TaskVerify == DictHas(task_args, "verify") /\ ~DictHas(task_args, "ensure")

TaskEnsure == DictHas(task_args, "ensure") /\ ~DictHas(task_args, "verify")

HoldsReturned(k, ret) == calls[k].op = "holds" /\ calls[k].ret = ret

SomeHoldsFalse == \E k \in 1..Len(calls) : HoldsReturned(k, "false")

\* C1: in verify mode no mutating command is ever issued and enforce() is
\* never called, whatever the postcondition and the working copy; once a
\* postcondition was found not to hold the run ends as a failure.
C1_VerifyNeverMutates ==
    TaskVerify =>
        /\ NoMutation
        /\ NoEnforce
        /\ repo = repo0
        /\ (pc = "done" /\ SomeHoldsFalse) => (outcome = "failed" /\ result.failed)

\* C1 witness: a verify run on a dirty tree ended as a failure on a
\* Committed postcondition that carries a commit message.
C1_Witness ==
    /\ TaskVerify
    /\ pc = "done"
    /\ outcome = "failed"
    /\ \E k \in 1..Len(calls) :
           /\ HoldsReturned(k, "false")
           /\ postconditions[calls[k].by].clazz = "Committed"
           /\ postconditions[calls[k].by].message.t = "str"

\* C2: a postcondition whose holds() returned true issued no mutating
\* command, only queries, and its enforce() was not called, in any mode.
C2_HoldsTrueNoMutation ==
    \A k \in 1..Len(calls) :
        HoldsReturned(k, "true") =>
            /\ \A j \in 1..Len(cmds) :
                   cmds[j].by = calls[k].by =>
                       (cmds[j].c.kind = "query" /\ ~IsMutating(cmds[j].c))
            /\ \A j \in 1..Len(calls) :
                   calls[j].by = calls[k].by => calls[j].op = "holds"

\* C2 witness: in ensure mode outside check mode, a Pushed and a Pulled
\* postcondition both held after issuing their queries.
C2_Witness ==
    /\ TaskEnsure /\ ~check_mode
    /\ \E k \in 1..Len(calls) :
           /\ HoldsReturned(k, "true")
           /\ postconditions[calls[k].by].clazz = "Pushed"
           /\ \E j \in 1..Len(cmds) : cmds[j].by = calls[k].by /\ cmds[j].c.verb = "push"
    /\ \E k \in 1..Len(calls) :
           /\ HoldsReturned(k, "true")
           /\ postconditions[calls[k].by].clazz = "Pulled"

\* C3: in check mode no mutating command is issued and enforce() is never
\* called, in ensure as in verify mode, and the working copy stays as the
\* run found it.
C3_CheckModeNeverMutates ==
    check_mode => (NoMutation /\ NoEnforce /\ repo = repo0)

\* C3 witness: an ensure run in check mode went past a postcondition that
\* did not hold and finished.
C3_Witness ==
    /\ check_mode /\ TaskEnsure
    /\ pc = "done" /\ outcome = "ok"
    /\ SomeHoldsFalse

LastCall == calls[Len(calls)]

\* the run is an ensure run outside check mode, on its second or later pass
\* over a working copy the pass before left without failure
Replayed == run >= 2 /\ prev.outcome = "ok" /\ TaskEnsure /\ ~check_mode

\* C4: when an ensure run that ended without failure is played again on the
\* working copy it left, every holds() of the second run is true and the
\* second run ends without failure and with changed = false.
C4_EnsureIdempotent ==
    Replayed =>
        /\ \A k \in 1..Len(calls) : HoldsReturned(k, "true")
        /\ pc = "done" => (outcome = "ok" /\ ~result.changed)

\* a Committed postcondition without commit message was found not to hold
\* in an ensure run outside check mode
DirtyWithoutMessage(k) ==
    /\ TaskEnsure /\ ~check_mode
    /\ HoldsReturned(k, "false")
    /\ postconditions[calls[k].by].clazz = "Committed"
    /\ postconditions[calls[k].by].message.t = "none"

\* C5: Committed without a commit message, in ensure mode outside check
\* mode, on a dirty tree: no commit command is issued, enforce() is not
\* called, and the run ends as a declined-to-enforce failure.
C5_NoMessageDeclines ==
    \A k \in 1..Len(calls) :
        DirtyWithoutMessage(k) =>
            /\ \A j \in 1..Len(cmds) : cmds[j].c.verb # "commit"
            /\ \A j \in 1..Len(calls) : calls[j].by = calls[k].by => calls[j].op # "enforce"
            /\ pc \in {"passive", "done"}
            /\ pc = "done" => /\ outcome = "failed"
                              /\ error = "AnsibleActionFail"
                              /\ result.failed
                              /\ result.msg = "Cannot auto-commit"

\* C5 witness: such a run has ended, on a tree with unstaged differences.
C5_Witness ==
    /\ pc = "done"
    /\ outcome = "failed"
    /\ repo.unstaged = "dirty"
    /\ \E k \in 1..Len(calls) : DirtyWithoutMessage(k)

\* the last call was holds() of a postcondition of this class; the working
\* copy is still the one holds() looked at
JustHeld(clazz) ==
    /\ calls # <<>>
    /\ LastCall.op = "holds"
    /\ postconditions[LastCall.by].clazz = clazz

\* C6: Committed.holds() is true iff both diff queries exit with 0, false
\* (no error) iff both exit within {0, 1} and one of them with 1, and any
\* other exit code of either query is a tool failure that ends the run.
C6_CommittedExitCodes ==
    JustHeld("Committed") =>
        LET red   == DiffRc(repo.unstaged)
            green == DiffRc(repo.staged)
        IN  /\ LastCall.ret = "true"   <=> (red = 0 /\ green = 0)
            /\ LastCall.ret = "false"  <=> ({red, green} \subseteq {0, 1} /\ 1 \in {red, green})
            /\ LastCall.ret = "raised" <=> ~({red, green} \subseteq {0, 1})
            /\ LastCall.ret = "raised" =>
                   (pc = "done" /\ outcome = "failed" /\ error = "AnsibleActionFail")

\* C6 witness: the unstaged diff exited with 1, the staged diff with 128,
\* and the run ended as a tool failure.
C6_Witness ==
    /\ JustHeld("Committed")
    /\ repo.unstaged = "dirty" /\ repo.staged = "error"
    /\ LastCall.ret = "raised"
    /\ outcome = "failed"

\* C7 as stated: Pulled.holds() is false iff the dry-run fetch reports a ref
\* move or HEAD is not an ancestor of the remote branch (HEAD has commits
\* the remote branch has not).
C7_AsStated ==
    (JustHeld("Pulled") /\ LastCall.ret # "raised") =>
        (LastCall.ret = "false" <=> (repo.unfetched \/ repo.ahead))

\* C7 amended: Pulled.holds() is false iff the dry-run fetch reports a ref
\* move or the resolved remote branch is not an ancestor of HEAD (the remote
\* branch has commits HEAD has not); it is true only when neither is the case.
C7_PulledHolds ==
    (JustHeld("Pulled") /\ LastCall.ret # "raised") =>
        /\ LastCall.ret = "false" <=> (repo.unfetched \/ repo.behind)
        /\ LastCall.ret = "true"  <=> (~repo.unfetched /\ ~repo.behind)

\* C7 witness: Pulled.holds() returned true although HEAD has commits the
\* remote branch has not.
C7_Witness ==
    /\ JustHeld("Pulled")
    /\ LastCall.ret = "true"
    /\ repo.ahead /\ ~repo.behind /\ ~repo.unfetched

\* the upstream the tracking value t stands for, given the remote names R
ExpectedUpstream(t, R) ==
    IF t = <<>> THEN <<PyNone, PyNone>>
    ELSE IF \E r \in R : /\ ~Contains(r, "/")
                         /\ Len(t) > Len(r)
                         /\ SubSeq(t, 1, Len(r)) = r
                         /\ t[Len(r) + 1] = "/"
    THEN LET r == CHOOSE r \in R : /\ ~Contains(r, "/")
                                   /\ Len(t) > Len(r)
                                   /\ SubSeq(t, 1, Len(r)) = r
                                   /\ t[Len(r) + 1] = "/"
         IN  <<r, SubSeq(t, Len(r) + 2, Len(t))>>
    ELSE <<W("origin"), t>>

\* C8: a tracking value r/b, split on its first "/", with r a known remote
\* resolves to (r, b); any other non-empty tracking value t resolves to
\* (origin, t); the empty one to (None, None); the pair is never half None.
C8_UpstreamResolution ==
    /\ (upstream[1] = PyNone) <=> (upstream[2] = PyNone)
    /\ pc = "done" =>
        /\ upstream = ExpectedUpstream(repo.tracking, repo.remotes)
        /\ (repo.tracking = <<"origin", "/", "feature">> /\ W("origin") \in repo.remotes)
               => upstream = <<W("origin"), W("feature")>>
        /\ (repo.tracking = <<"upstream", "/", "feature", "/", "x">>
               /\ W("upstream") \in repo.remotes)
               => upstream = <<W("upstream"), <<"feature", "/", "x">>>>
        /\ (repo.tracking = <<"weird-name", "/", "foo">> /\ W("weird-name") \notin repo.remotes)
               => upstream = <<W("origin"), <<"weird-name", "/", "foo">>>>

\* C8 witness: upstream/feature/x was resolved with upstream a known remote.
C8_Witness ==
    /\ pc = "done"
    /\ repo.tracking = <<"upstream", "/", "feature", "/", "x">>
    /\ repo.remotes = {W("origin"), W("upstream")}
    /\ upstream = <<W("upstream"), <<"feature", "/", "x">>>>

\* the value of the verify / ensure key of the task, <<>> if it has neither
TaskTodo ==
    IF DictHas(task_args, "verify") THEN DictGet(task_args, "verify", VNone).d
    ELSE IF DictHas(task_args, "ensure") THEN DictGet(task_args, "ensure", VNone).d
    ELSE <<>>

\* the elements of the pull value of the task
TaskPullList ==
    LET v == DictGet(TaskTodo, "pull", VList(<<>>)) IN
    IF v.t = "list" THEN v.l ELSE <<v>>

\* the configuration errors: both or neither of verify and ensure, a key
\* that is not known at either level, a value of the wrong type
ConfigError ==
    \/ DictHas(task_args, "verify") /\ DictHas(task_args, "ensure")
    \/ ~DictHas(task_args, "verify") /\ ~DictHas(task_args, "ensure")
    \/ ~(DictKeys(task_args) \subseteq {"verify", "ensure", "branch", "repository", "git_command"})
    \/ ~(DictKeys(TaskTodo) \subseteq {"checked_out", "committed", "pull", "push"})
    \/ DictGet(TaskTodo, "committed", VNone).t \notin {"none", "bool", "dict"}
    \/ \E i \in 1..Len(TaskPullList) : TaskPullList[i].t \notin {"bool", "dict"}
    \/ DictGet(TaskTodo, "push", VNone).t \notin {"none", "bool", "dict"}

\* the task is free of configuration errors and every element of its pull
\* value is true or a mapping
PullDecodable ==
    /\ ~ConfigError
    /\ TaskPullList # <<>>
    /\ \A i \in 1..Len(TaskPullList) : IsTrue(TaskPullList[i]) \/ TaskPullList[i].t = "dict"

PulledOf(pcs) == SelectSeq(pcs, LAMBDA q : q.clazz = "Pulled")

\* C9: a pull value that is true, a mapping or a list of these decodes
\* without error to one Pulled per element, in order: true gives
\* pull_from absent, a mapping gives its from / rebase / autostash; each
\* carries the branch, repository, git_command and mode of the task.
C9_PullDecodes ==
    (pc \in {"holds", "passive", "enforce", "done"} /\ PullDecodable) =>
        LET pulled == PulledOf(postconditions) IN
        /\ Len(pulled) = Len(TaskPullList)
        /\ \A i \in 1..Len(TaskPullList) :
               LET e == TaskPullList[i]
                   d == IF e.t = "dict" THEN e.d ELSE <<>>
               IN  /\ pulled[i].branch_spec = DictGet(d, "from", VNone)
                   /\ Truthy(pulled[i].rebase) = Truthy(DictGet(d, "rebase", VFalse))
                   /\ Truthy(pulled[i].autostash) = Truthy(DictGet(d, "autostash", VFalse))
                   /\ pulled[i].branch_name = DictGet(task_args, "branch", VNone)
                   /\ pulled[i].repository_path = DictGet(task_args, "repository", VNone)
                   /\ pulled[i].git_command = DictGet(task_args, "git_command", VNone)
                   /\ pulled[i].verify = TaskVerify

\* C10: a task with a configuration error never gets a command issued nor a
\* postcondition evaluated: run ends with the exception, no list of
\* postconditions is returned.
C10_ConfigErrorFirst ==
    ConfigError =>
        /\ cmds = <<>>
        /\ calls = <<>>
        /\ postconditions = <<>>
        /\ pc \in {"start", "done"}
        /\ pc = "done" => (outcome = "raised" /\ error \in {"AnsibleError", "TypeError"})

\* C10 witness: the run of a task with an unknown key after a valid
\* checked_out key has ended with a TypeError and without any command.
C10_Witness ==
    /\ pc = "done"
    /\ outcome = "raised"
    /\ error = "TypeError"
    /\ cmds = <<>>
    /\ Len(TaskTodo) = 2
    /\ TaskTodo[1][1] = "checked_out" /\ IsTrue(TaskTodo[1][2])
    /\ TaskTodo[2][1] = "bogus"

\* the call ended the evaluation of its postcondition in a fatal condition:
\* an exception, a reason not to enforce, or a verify assertion that is false
Fatal(k) ==
    \/ calls[k].ret \in {"raised", "reason"}
    \/ calls[k].op = "passive" /\ calls[k].ret = "absent" /\ postconditions[calls[k].by].verify

\* C11: postconditions are evaluated one at a time in list order, and a
\* fatal condition of one postcondition ends the run: it is the last call,
\* no command is logged for a later postcondition, and the run is over.
C11_FailFast ==
    /\ \A j, k \in 1..Len(cmds) : j < k => cmds[j].by <= cmds[k].by
    /\ \A j, k \in 1..Len(calls) : j < k => calls[j].by <= calls[k].by
    /\ \A k \in 1..Len(cmds) : cmds[k].by <= idx
    /\ \A k \in 1..Len(calls) :
           Fatal(k) =>
               /\ k = Len(calls)
               /\ pc = "done" /\ outcome \in {"failed", "raised"}
               /\ \A j \in 1..Len(cmds) : cmds[j].by <= calls[k].by
    /\ outcome \in {"failed", "raised"} => pc = "done"

\* C11 witness: a run of four postconditions ended at the second one, after
\* commands of the first two and of no other.
C11_Witness ==
    /\ pc = "done"
    /\ outcome = "failed"
    /\ Len(postconditions) = 4
    /\ calls # <<>> /\ Fatal(Len(calls)) /\ LastCall.by = 2
    /\ \E j \in 1..Len(cmds) : cmds[j].by = 1
    /\ \E j \in 1..Len(cmds) : cmds[j].by = 2

\* some enforce() of this run went through
SomeEnforced == \E k \in 1..Len(calls) : calls[k].op = "enforce" /\ calls[k].ret = "ok"

\* C12: when a run is over, changed is true iff an enforce() of the run went
\* through, and a run that failed after an enforce() returns a result with
\* failed = true, a message and changed = true.
C12_ChangedReflectsMutations ==
    pc = "done" =>
        /\ result.changed <=> SomeEnforced
        /\ (outcome # "ok" /\ SomeEnforced) =>
               /\ outcome = "failed"
               /\ result.failed
               /\ result.msg # ""
               /\ result.changed

\* number of enforce() calls of postcondition i in this run
EnforceCalls(i) == Cardinality({k \in 1..Len(calls) : calls[k].op = "enforce" /\ calls[k].by = i})

\* C13: every enforce() call comes right after a passive() call of the same
\* postcondition that returned absent, itself right after a holds() call of
\* the same postcondition that returned false; a postcondition is enforced
\* at most once, and nothing is called after passive() returned a reason.
C13_ProtocolOrder ==
    /\ \A k \in 1..Len(calls) :
           calls[k].op = "enforce" =>
               /\ k >= 3
               /\ calls[k - 1] = Call(calls[k].by, "passive", "absent")
               /\ calls[k - 2] = Call(calls[k].by, "holds", "false")
               /\ ~postconditions[calls[k].by].verify
    /\ \A i \in 1..Len(postconditions) : EnforceCalls(i) <= 1
    /\ \A k \in 1..Len(calls) :
           (calls[k].op = "passive" /\ calls[k].ret = "reason") => k = Len(calls)
    /\ pc = "enforce" =>
           /\ Len(calls) >= 2
           /\ LastCall = Call(idx, "passive", "absent")
           /\ calls[Len(calls) - 1] = Call(idx, "holds", "false")

\* C13 witness: two postconditions of one run were enforced, each after its
\* own holds() and passive().
C13_Witness ==
    /\ pc = "done"
    /\ \E j, k \in 1..Len(calls) :
           /\ calls[j].op = "enforce" /\ calls[k].op = "enforce"
           /\ calls[j].by < calls[k].by
           /\ postconditions[calls[k].by].clazz = "Committed"

\* the commands that need a resolved upstream
UpstreamVerbs == {"fetch", "merge-base", "pull", "push"}

PushOrPull(i) == postconditions[i].clazz \in {"Pulled", "Pushed"}

\* C14: on a working copy where no upstream is configured, a Pulled or
\* Pushed postcondition issues no fetch, merge-base, pull or push command;
\* its holds() raises and the run ends with that error, in verify and in
\* ensure mode.
C14_NoUpstreamIsFatal ==
    Strip(repo.tracking) = <<>> =>
        /\ \A j \in 1..Len(cmds) :
               PushOrPull(cmds[j].by) =>
                   /\ cmds[j].c.verb \notin UpstreamVerbs
                   /\ cmds[j].c.kind = "query"
        /\ \A k \in 1..Len(calls) :
               PushOrPull(calls[k].by) =>
                   /\ calls[k] = Call(calls[k].by, "holds", "raised")
                   /\ pc = "done"
                   /\ outcome \in {"failed", "raised"}
                   /\ error = "AnsibleError"

\* C14 witness: an ensure run outside check mode ended at a Pushed
\* postcondition whose upstream query found nothing.
C14_Witness ==
    /\ Strip(repo.tracking) = <<>>
    /\ TaskEnsure /\ ~check_mode
    /\ pc = "done"
    /\ calls # <<>>
    /\ postconditions[LastCall.by].clazz = "Pushed"
    /\ LastCall.ret = "raised"
    /\ \E j \in 1..Len(cmds) : cmds[j].by = LastCall.by /\ cmds[j].c.uses_shell

\* postcondition i is a CheckedOut that names no branch
AnyBranch(i) == postconditions[i].clazz = "CheckedOut" /\ ~Truthy(postconditions[i].branch_name)

\* what C15 says of holds() and of the commands issued
C15_HoldsAndCommands ==
    /\ \A k \in 1..Len(calls) :
           (AnyBranch(calls[k].by) /\ calls[k].op = "holds") =>
               /\ calls[k].ret \in {"true", "false"}
               /\ calls[k].ret = "true" <=> repo0.current # ""
    /\ \A j \in 1..Len(cmds) : AnyBranch(cmds[j].by) => cmds[j].c.verb # "checkout"

\* C15: a CheckedOut without branch name holds iff HEAD is not detached;
\* when it does not hold in an ensure run outside check mode, no checkout
\* command is issued and the run ends with failed = true and a message, as
\* for a declined enforcement.
C15_DetachedCheckoutDeclines ==
    /\ C15_HoldsAndCommands
    /\ \A k \in 1..Len(calls) :
           (/\ AnyBranch(calls[k].by) /\ HoldsReturned(k, "false")
            /\ TaskEnsure /\ ~check_mode /\ pc = "done") =>
               /\ outcome = "failed"
               /\ error = "AnsibleActionFail"
               /\ result.failed
               /\ result.msg # ""

\* the upstream-resolution query: the one command handed over in shell form
IsUpstreamQuery(c) == c.uses_shell /\ Contains(c.argv[1], "for-each-ref")

\* number of upstream-resolution queries postcondition i issued in this run
UpstreamQueries(i) ==
    Cardinality({j \in 1..Len(cmds) : cmds[j].by = i /\ IsUpstreamQuery(cmds[j].c)})

\* C16: a postcondition issues the upstream-resolution query at most once
\* during its evaluation, however often remote, remote_branch and
\* remote_branch_qualified are used by holds(), explainer() and enforce().
C16_UpstreamResolvedOnce ==
    \A i \in 1..Len(postconditions) : UpstreamQueries(i) <= 1

\* the flags C17 expects for the postcondition
ExpectedPushFlags(p) ==
    IF Truthy(p.force) THEN <<W("--force")>>
    ELSE IF Truthy(p.force_with_lease) THEN <<W("--force-with-lease")>>
    ELSE <<>>

\* the arguments of a push command after "push" and "--dry-run"
PushArgsOf(c) ==
    IF Len(c.argv) >= 3 /\ c.argv[3] = W("--dry-run")
    THEN SubSeq(c.argv, 4, Len(c.argv))
    ELSE SubSeq(c.argv, 3, Len(c.argv))

IsPush(j) == postconditions[cmds[j].by].clazz = "Pushed" /\ cmds[j].c.verb = "push"

\* C17: every push command of a Pushed postcondition carries --force when
\* force is set, --force-with-lease when only force_with_lease is set, no
\* flag otherwise, then the resolved remote and remote branch; the query is
\* the dry-run push, the change is the push without --dry-run, and both
\* have the same arguments.
C17_PushArgs ==
    /\ \A j \in 1..Len(cmds) :
           IsPush(j) =>
               /\ ~cmds[j].c.uses_shell
               /\ PushArgsOf(cmds[j].c)
                      = ExpectedPushFlags(postconditions[cmds[j].by])
                        \o ExpectedUpstream(Strip(repo.tracking), repo.remotes)
               /\ Cardinality({a \in 1..Len(cmds[j].c.argv) :
                                   cmds[j].c.argv[a] \in {W("--force"), W("--force-with-lease")}}) <= 1
               /\ (cmds[j].c.kind = "query") <=> (cmds[j].c.argv[3] = W("--dry-run"))
    /\ \A j, k \in 1..Len(cmds) :
           (IsPush(j) /\ IsPush(k) /\ cmds[j].by = cmds[k].by) =>
               PushArgsOf(cmds[j].c) = PushArgsOf(cmds[k].c)

\* C17 witness: a Pushed postcondition with force and force_with_lease both
\* set ran its dry-run push and then its real push.
C17_Witness ==
    \E j, k \in 1..Len(cmds) :
        /\ IsPush(j) /\ IsPush(k) /\ cmds[j].by = cmds[k].by
        /\ cmds[j].c.kind = "query" /\ cmds[k].c.kind = "change"
        /\ Truthy(postconditions[cmds[j].by].force)
        /\ Truthy(postconditions[cmds[j].by].force_with_lease)

\* the git executable the task configures
ConfiguredGit(p) == IF p.git_command.t = "str" THEN p.git_command.s ELSE "git"

\* the shell text of the upstream query for the current branch, run with
\* the executable g
CurrentUpstreamText(g) ==
    <<g, " ", "for-each-ref", " ", "--format=\"%(upstream:short)\"", " ", "\"",
      "$(", g, " ", "symbolic-ref", " ", "-q", " ", "\"HEAD\"", ")", "\"">>

\* the command runs the executable g, in argv form or in shell form
RunsGit(c, g) ==
    IF c.uses_shell
    THEN /\ Len(c.argv) = 1
         /\ c.argv[1][1] = g
         /\ \A i \in 2..Len(c.argv[1]) :
                c.argv[1][i - 1] \in {"$(", Backtick} => c.argv[1][i] = g
         /\ Contains(c.argv[1], "$(") => c.argv[1] = CurrentUpstreamText(g)
         /\ g # "git" => ~Contains(c.argv[1], "git")
    ELSE c.argv[1] = W(g)

\* the repository path is no part of the command text
PathNotInText(c, path) ==
    path.t = "str" =>
        \A a \in 1..Len(c.argv) : c.argv[a] # W(path.s) /\ ~Contains(c.argv[a], path.s)

\* C18: every command issued, query or change, argv or shell form, has the
\* postcondition's repository path as working directory and nowhere in its
\* text, and runs the configured git executable, also where the shell text
\* calls git inside a command substitution.
C18_CommandBoundary ==
    \A j \in 1..Len(cmds) :
        /\ cmds[j].c.chdir = postconditions[cmds[j].by].repository_path
        /\ cmds[j].c.chdir = DictGet(task_args, "repository", VNone)
        /\ RunsGit(cmds[j].c, ConfiguredGit(postconditions[cmds[j].by]))
        /\ PathNotInText(cmds[j].c, postconditions[cmds[j].by].repository_path)

\* C18 witness: with a configured executable and repository path, a run
\* issued a change in argv form and the upstream query in shell form with a
\* command substitution.
C18_Witness ==
    /\ DictGet(task_args, "git_command", VNone) = VStr("/opt/git")
    /\ DictGet(task_args, "repository", VNone) = VStr("/srv/repo")
    /\ \E j \in 1..Len(cmds) : cmds[j].c.kind = "change" /\ ~cmds[j].c.uses_shell
    /\ \E j \in 1..Len(cmds) : cmds[j].c.uses_shell /\ Contains(cmds[j].c.argv[1], "$(")

\* the classes of a list of postconditions, in order
ClassesOf(pcs) == [i \in 1..Len(pcs) |-> pcs[i].clazz]

\* the classes C19 expects for the task, whatever the order of its keys
ExpectedClasses ==
    (IF Truthy(DictGet(TaskTodo, "checked_out", VNone)) THEN <<"CheckedOut">> ELSE <<>>)
    \o (IF DictGet(TaskTodo, "committed", VNone).t # "none" THEN <<"Committed">> ELSE <<>>)
    \o [i \in 1..Len(TaskPullList) |-> "Pulled"]
    \o (IF Truthy(DictGet(TaskTodo, "push", VNone)) THEN <<"Pushed">> ELSE <<>>)

\* the task has no configuration error and nothing the constructors refuse
Decodes ==
    /\ ~ConfigError
    /\ DictGet(TaskTodo, "committed", VNone).t = "bool" => IsTrue(DictGet(TaskTodo, "committed", VNone))
    /\ DictGet(TaskTodo, "committed", VNone).t = "dict" =>
           DictHas(DictGet(TaskTodo, "committed", VNone).d, "message")
    /\ \A i \in 1..Len(TaskPullList) : TaskPullList[i].t = "dict"
    /\ DictGet(TaskTodo, "push", VNone).t = "dict" =>
           DictKeys(DictGet(TaskTodo, "push", VNone).d) \subseteq {"to", "force", "force_with_lease"}

\* the decoder has returned in this run
DecoderReturned == pc \in {"holds", "passive", "enforce", "done"}

\* C19: the decoder returns CheckedOut (if asked for), then Committed, then
\* one Pulled per element of the pull value in its order, then Pushed,
\* whatever the order of the keys of the mapping; a false checked_out or
\* push gives no postcondition and no error.
C19_DecoderOrder ==
    /\ (DecoderReturned /\ Decodes) =>
           /\ ClassesOf(postconditions) = ExpectedClasses
           /\ \A i \in 1..Len(TaskPullList) :
                  PulledOf(postconditions)[i].branch_spec = DictGet(TaskPullList[i].d, "from", VNone)
    /\ postconditions # <<>> => ClassesOf(postconditions) = ExpectedClasses
    /\ \A c \in {"CheckedOut", "Committed", "Pushed"} :
           Cardinality({i \in 1..Len(postconditions) : postconditions[i].clazz = c}) <= 1
    /\ (/\ DecoderReturned
        /\ DictKeys(TaskTodo) = {"checked_out", "push"}
        /\ ~Truthy(DictGet(TaskTodo, "checked_out", VNone))
        /\ ~Truthy(DictGet(TaskTodo, "push", VNone))
        /\ DictGet(TaskTodo, "push", VNone).t = "bool") =>
           (postconditions = <<>> /\ pc = "done" /\ outcome = "ok" /\ error = NoError)

\* C19 witness: a task whose mapping names push first and checked_out last
\* was decoded to CheckedOut, Committed, Pulled, Pushed.
C19_Witness ==
    /\ Len(TaskTodo) = 4
    /\ TaskTodo[1][1] = "push" /\ TaskTodo[4][1] = "checked_out"
    /\ ClassesOf(postconditions) = <<"CheckedOut", "Committed", "Pulled", "Pushed">>

====
